---- MODULE Spec2Model ----
(***************************************************************************)
(* wave-buoy-stats.py: one run of the script fetches every roster station  *)
(* three times (once per figure), plots a time-series panel per station,   *)
(* a station map, and a 30-day density plot whose columns are reindexed    *)
(* onto the first station's time axis.                                     *)
(*                                                                         *)
(* Time is counted in whole days.  A wave height is an integer number of   *)
(* metres; a height in feet is kept exactly as an integer numerator (see   *)
(* FeetPlot and FeetDensity).  An optional value (Python None, a pandas    *)
(* NaN) is the empty sequence, a present value x is <<x>>.                 *)
(***************************************************************************)
EXTENDS Integers, Sequences, FiniteSets

VARIABLES
    pc,            \* the function of __main__ that is running, "done" or "aborted"
    buoy_lookup,   \* the roster: sequence of [key, value], in dict insertion order
    i,             \* enumerate() index of the next station of the running loop
    ds,            \* result of the last get_buoy_data call: None or <<dataset>>
    err,           \* the uncaught exception that ended the run, or "none"
    ax,            \* make_timeseries_plots: the panels drawn so far, by index
    station_name,  \* get_station_locations: list of keys
    lats,          \* get_station_locations: list of None / <<latitude>>
    lons,          \* get_station_locations: list of None / <<longitude>>
    df,            \* make_density_plots: None or <<[index, columns, data]>>
    files,         \* figures written by plt.savefig, by file name
    fetched,       \* every get_buoy_data call so far: [caller, key, online]
    line,          \* in a loop pass: "fetch" before get_buoy_data, "body" after it
    max_hs         \* make_timeseries_plots: the maximum plot_buoy returned, or None

vars == <<pc, buoy_lookup, i, ds, err, ax, station_name, lats, lons, df, files, fetched,
          line, max_hs>>

-----------------------------------------------------------------------------
(* Bounds of the model *)

\* rosters have 1 .. MaxStations entries (the script's own roster has 8)
MaxStations == 3
\* datetime.now(), in days
Now == 40
\* the alignment inputs carry timestamps in (Now - AlignSpan) .. Now
AlignSpan == 9
\* the plotted inputs carry wave heights in 1 .. MaxHs metres
MaxHs == 2
\* a sparse series has its samples on every SourceStride-th instant
SourceStride == 3

(* Program constants *)

\* plot_buoy: timedelta(days=10), the first window plotted
TrendDays == 10
\* plot_buoy: timedelta(days=1), the second window plotted
ShortDays == 1
\* make_density_plots: timedelta(days=30)
DensityDays == 30
\* make_density_plots: reindex(..., limit=3)
limit == 3

None == <<>>
NaN == <<>>
Some(x) == <<x>>

\* __main__: the roster literal, in insertion order
AllStations ==
    << [key |-> "Humboldt Bay",   value |-> "168"],
       [key |-> "Cape Mendocino", value |-> "094"],
       [key |-> "Point Reyes",    value |-> "029"],
       [key |-> "SF Bar",         value |-> "142"],
       [key |-> "Monterey Bay",   value |-> "185"],
       [key |-> "Cabrillo Point", value |-> "158"],
       [key |-> "Point Sur",      value |-> "157"],
       [key |-> "Diablo Canyon",  value |-> "076"] >>

-----------------------------------------------------------------------------
(* Helpers on sequences *)

Range(s) == {s[k] : k \in DOMAIN s}

Abs(x) == IF x < 0 THEN -x ELSE x

\* the elements of a finite set of integers as a strictly increasing sequence
RECURSIVE SortedSeq(_)
SortedSeq(S) ==
    IF S = {} THEN <<>>
    ELSE LET m == CHOOSE x \in S : \A y \in S : x <= y
         IN <<m>> \o SortedSeq(S \ {m})

\* numpy ndarray.max(): defined on a non-empty array only
ArrayMax(a) == CHOOSE m \in Range(a) : \A x \in Range(a) : x <= m

-----------------------------------------------------------------------------
(* The remote datasets.  A dataset is what xr.open_dataset returns: the     *)
(* waveTime axis (strictly increasing, as CDIP serves it) with waveHs on    *)
(* it, and the GPS fixes, of which there is at least one.                   *)

MkDataset(T, hs) ==
    LET t == SortedSeq(T)
    IN [ waveTime     |-> t,
         waveHs       |-> [k \in 1..Len(t) |-> hs[t[k]]],
         gpsLatitude  |-> <<36, 37>>,
         gpsLongitude |-> <<-123, -122>> ]

\* Three datasets a full run draws from: one with samples in every window
\* (its largest height outside the last day), one whose samples all lie
\* between 15 and 12 days ago, one on another time grid.
RemoteDatasets ==
    { MkDataset({Now - 35, Now - 8, Now - 3, Now},
                [t \in {Now - 35, Now - 8, Now - 3, Now} |->
                    IF t = Now - 8 THEN 3 ELSE IF t = Now - 3 THEN 2 ELSE 1]),
      MkDataset({Now - 15, Now - 12}, [t \in {Now - 15, Now - 12} |-> 2]),
      MkDataset({Now - 9, Now - 4, Now - 1},
                [t \in {Now - 9, Now - 4, Now - 1} |-> IF t = Now - 1 THEN 4 ELSE 1]) }

\* The instants that decide plot_buoy's windows: before the 10-day window,
\* on its left edge, inside it only, on the 1-day window's left edge, now.
PlotTimes == {Now - TrendDays - 1, Now - TrendDays, Now - ShortDays - 1, Now - ShortDays, Now}

\* every dataset on PlotTimes with heights in 1 .. MaxHs
PlotDatasets ==
    UNION { { MkDataset(T, hs) : hs \in [T -> 1..MaxHs] } : T \in SUBSET PlotTimes }

AlignTimes == (Now - AlignSpan)..Now

\* every dataset on AlignTimes; the height tells the sample: it is the
\* sample's offset into AlignTimes, counted from 1
AlignDatasets ==
    { MkDataset(T, [t \in T |-> t - (Now - AlignSpan) + 1]) : T \in SUBSET AlignTimes }

\* the instants of the coarser grid, counted back from now
CoarseTimes == {t \in AlignTimes : (Now - t) % SourceStride = 0}

\* the sparse ones: every dataset on the coarser grid
SparseDatasets == {d \in AlignDatasets : Range(d.waveTime) \subseteq CoarseTimes}

-----------------------------------------------------------------------------
(* plot_buoy *)

\* sig_wave/0.3048, exactly: the numerator of the height in 1/381 feet
\* (1/0.3048 = 1250/381)
FeetPlot(x) == x * 1250

\* ds.sel(waveTime=slice(now - timedelta(days), now)): label slices are
\* inclusive at both ends
Sel(d, days) ==
    LET idx == SortedSeq({k \in DOMAIN d.waveTime :
                            Now - days <= d.waveTime[k] /\ d.waveTime[k] <= Now})
    IN [ d EXCEPT !.waveTime = [m \in 1..Len(idx) |-> d.waveTime[idx[m]]],
                  !.waveHs   = [m \in 1..Len(idx) |-> d.waveHs[idx[m]]] ]

\* one ax.plot call: the localized times (tz_localize/tz_convert relabel the
\* instants, they do not move them) against the heights in feet
PlotLine(w) == [ x |-> w.waveTime, y |-> [m \in DOMAIN w.waveHs |-> FeetPlot(w.waveHs[m])] ]

\* plot_buoy taking the maximum after the second window is read, from it
plot_buoy_short(d) ==
    LET trend == Sel(d, TrendDays)
        short == Sel(d, ShortDays)
    IN IF short.waveHs = <<>>
       THEN [ raised |-> "ValueError", lines |-> <<>>, last_month |-> short, max_hs |-> None ]
       ELSE [ raised     |-> "none",
              lines      |-> <<PlotLine(trend), PlotLine(short)>>,
              last_month |-> short,
              max_hs     |-> Some(FeetPlot(ArrayMax(short.waveHs))) ]

\* plot_buoy(ds, ax=..., max_hs=True): the two lines drawn, the returned
\* dataset and maximum, or the exception numpy raises for max() of an
\* empty array
plot_buoy(d) ==
    LET trend == Sel(d, TrendDays)
        short == Sel(d, ShortDays)
    IN IF trend.waveHs = <<>>
       THEN [ raised |-> "ValueError", lines |-> <<>>, last_month |-> short, max_hs |-> None ]
       ELSE [ raised     |-> "none",
              lines      |-> <<PlotLine(trend), PlotLine(short)>>,
              last_month |-> short,
              max_hs     |-> Some(FeetPlot(ArrayMax(trend.waveHs))) ]

-----------------------------------------------------------------------------
(* make_density_plots: the frame and DataFrame.reindex *)

\* ds['waveHs'].to_pandas()*3.28084, exactly: the height in 1/100000 feet
FeetDensity(x) == x * 328084

\* pd.DataFrame(ds['waveHs'].to_pandas()*3.28084, columns=[key]): a frame
\* with the dataset's whole time axis as index and one column
Frame(d, key) ==
    [ index   |-> d.waveTime,
      columns |-> <<key>>,
      data    |-> [c \in {key} |-> [m \in DOMAIN d.waveHs |-> Some(FeetDensity(d.waveHs[m]))]] ]

\* Position 0 stands for pandas' indexer value -1, "no label".

\* pad with the limit left out (limit=None): every target after a label
pad_nolimit(old, new, lim) ==
    [ j \in DOMAIN new |->
        LET below == {k \in DOMAIN old : old[k] <= new[j]}
        IN IF below = {} THEN 0 ELSE CHOOSE m \in below : \A n \in below : n <= m ]

\* Index.get_indexer(target, 'pad', limit): the last source label at or
\* before the target; an exact match always, otherwise only for the first
\* `lim` targets that fall strictly between this label and the next
pad(old, new, lim) ==
    [ j \in DOMAIN new |->
        LET below == {k \in DOMAIN old : old[k] <= new[j]}
        IN IF below = {} THEN 0
           ELSE LET k == CHOOSE m \in below : \A n \in below : n <= m
                    filled == {jj \in 1..(j - 1) : old[k] < new[jj]}
                IN IF old[k] = new[j] \/ Cardinality(filled) < lim THEN k ELSE 0 ]

\* Index.get_indexer(target, 'backfill', limit): the first source label at
\* or after the target; an exact match always, otherwise only for the last
\* `lim` targets that fall strictly between the previous label and this one
backfill(old, new, lim) ==
    [ j \in DOMAIN new |->
        LET above == {k \in DOMAIN old : old[k] >= new[j]}
        IN IF above = {} THEN 0
           ELSE LET k == CHOOSE m \in above : \A n \in above : m <= n
                    filled == {jj \in (j + 1)..Len(new) : new[jj] < old[k]}
                IN IF old[k] = new[j] \/ Cardinality(filled) < lim THEN k ELSE 0 ]

\* own_values[indexer]: numpy reads position -1 as the last element
Take(old, k) == IF k = 0 THEN old[Len(old)] ELSE old[k]

\* method='pad' in place of method='nearest'
get_pad_indexer(old, new, lim) ==
    IF old = <<>> THEN [j \in DOMAIN new |-> 0] ELSE pad(old, new, lim)

\* Index._get_nearest_indexer(target, limit, tolerance=None): on an empty
\* index every target is unmatched; otherwise the pad match when it is
\* strictly nearer or there is no backfill match, else the backfill match
get_nearest_indexer(old, new, lim) ==
    IF old = <<>> THEN [j \in DOMAIN new |-> 0]
    ELSE LET left_indexer  == pad(old, new, lim)
             right_indexer == backfill(old, new, lim)
         IN [ j \in DOMAIN new |->
                LET left_distance  == Abs(Take(old, left_indexer[j]) - new[j])
                    right_distance == Abs(Take(old, right_indexer[j]) - new[j])
                IN IF left_distance < right_distance \/ right_indexer[j] = 0
                   THEN left_indexer[j] ELSE right_indexer[j] ]

\* the reindexed column with its NaN rows dropped
reindex_dropna(raw_df, key, df_index, lim) ==
    LET indexer == get_nearest_indexer(raw_df.index, df_index, lim)
        kept    == SortedSeq({j \in DOMAIN df_index : indexer[j] # 0})
    IN [ m \in DOMAIN kept |-> raw_df.data[key][indexer[kept[m]]] ]

\* raw_df.reindex(df_index, method='nearest', limit=3): a column on
\* df_index, NaN where the indexer found no label
reindex(raw_df, key, df_index, lim) ==
    LET indexer == get_nearest_indexer(raw_df.index, df_index, lim)
    IN [ j \in DOMAIN df_index |->
           IF indexer[j] = 0 THEN NaN ELSE raw_df.data[key][indexer[j]] ]

\* df[key] = raw_df.reindex(df_index, method='nearest', limit=3)
SetColumn(frame, key, d) ==
    [ index   |-> frame.index,
      columns |-> Append(frame.columns, key),
      data    |-> [c \in Range(frame.columns) \cup {key} |->
                     IF c = key THEN reindex(Frame(d, key), key, frame.index, limit)
                     ELSE frame.data[c]] ]

\* df[df.index > datetime.today() - timedelta(days=30)]
Recent(frame) ==
    LET rows == SortedSeq({j \in DOMAIN frame.index : frame.index[j] > Now - DensityDays})
    IN [ index   |-> [m \in DOMAIN rows |-> frame.index[rows[m]]],
         columns |-> frame.columns,
         data    |-> [c \in Range(frame.columns) |->
                        [m \in DOMAIN rows |-> frame.data[c][rows[m]]]] ]

-----------------------------------------------------------------------------
(* The run.  A pass of a loop is two steps: the call of get_buoy_data, and  *)
(* the rest of the loop body.                                               *)

FileNames == {"hs_whole_region_feet.png", "map_region_feet.png", "hs_distro_feet.png"}

\* len(buoy_lookup)
n == Len(buoy_lookup)

\* get_buoy_data(value): the dataset, or None when xr.open_dataset raised
FetchResults(menu) == {None} \cup {Some(d) : d \in menu}

\* ds = get_buoy_data(value), in the loop of the function pc names; the
\* call is logged with its caller, so that what each figure saw of a
\* station can be told apart
Fetch(menu) ==
    /\ line = "fetch"
    /\ i < n
    /\ \E r \in FetchResults(menu) :
         /\ ds' = r
         /\ fetched' = Append(fetched, [caller |-> pc, key |-> buoy_lookup[i + 1].key,
                                        online |-> r # None])
    /\ line' = "body"
    /\ UNCHANGED <<pc, buoy_lookup, i, err, ax, station_name, lats, lons, df, files, max_hs>>

\* plt.subplots(len(buoy_lookup), sharex=True, ...): an array of axes, but
\* for a single row the one Axes object itself (squeeze=True), which cannot
\* be indexed
subplots(rows) == [ squeezed |-> rows = 1, panels |-> [k \in 1..rows |-> None] ]

NoFigure == [ squeezed |-> FALSE, panels |-> <<>> ]

\* the branch for ds is None: the station's name in the fixed colour and
\* "Station Offline"
OfflinePanel(station) ==
    [ name |-> station.key, colour |-> [fixed |-> "#2F5596", cmap |-> None],
      label |-> "Station Offline", cdip |-> station.value, lines |-> <<>> ]

\* the branch for a dataset: plot_buoy's lines, the station's name in
\* colour cmap(i)
OnlinePanel(station, idx, plotted) ==
    [ name |-> station.key, colour |-> [fixed |-> "", cmap |-> Some(idx)],
      label |-> "", cdip |-> station.value, lines |-> plotted.lines ]

\* an exception nothing catches: the script ends
Raise(e) ==
    /\ pc' = "aborted"
    /\ err' = e

\* ds = get_buoy_data(value) in make_timeseries_plots
TimeseriesFetch(menu) ==
    /\ pc = "make_timeseries_plots"
    /\ Fetch(menu)

\* the rest of a pass of the loop of make_timeseries_plots
TimeseriesPanel ==
    /\ pc = "make_timeseries_plots"
    /\ line = "body"
    /\ IF ax.squeezed
       THEN \* ax[i] on an Axes object
            Raise("TypeError") /\ UNCHANGED <<i, ds, ax, line, max_hs>>
       ELSE IF ds = None
       THEN /\ ax' = [ax EXCEPT !.panels[i + 1] = Some(OfflinePanel(buoy_lookup[i + 1]))]
            /\ i' = i + 1
            /\ line' = "fetch"
            /\ UNCHANGED <<pc, err, ds, max_hs>>
       ELSE LET plotted == plot_buoy(ds[1])
            IN IF plotted.raised # "none"
               THEN Raise(plotted.raised) /\ UNCHANGED <<i, ds, ax, line, max_hs>>
               ELSE \* ax_current, ds, max_hs = plot_buoy(ds, ...)
                    /\ ax' = [ax EXCEPT !.panels[i + 1] =
                                 Some(OnlinePanel(buoy_lookup[i + 1], i, plotted))]
                    /\ ds' = Some(plotted.last_month)
                    /\ max_hs' = plotted.max_hs
                    /\ i' = i + 1
                    /\ line' = "fetch"
                    /\ UNCHANGED <<pc, err>>
    /\ UNCHANGED <<buoy_lookup, station_name, lats, lons, df, files, fetched>>

\* what the saved time-series figure shows of a panel
Shown(panel) == [ name |-> panel.name, colour |-> panel.colour, label |-> panel.label ]

\* the end of make_timeseries_plots: the figure is saved, and __main__
\* calls make_buoy_map
TimeseriesSave ==
    /\ pc = "make_timeseries_plots"
    /\ line = "fetch"
    /\ i = n
    /\ files' = [files EXCEPT !["hs_whole_region_feet.png"] =
                    Some([k \in DOMAIN ax.panels |-> Shown(ax.panels[k][1])])]
    /\ pc' = "make_buoy_map"
    /\ i' = 0
    /\ ax' = NoFigure
    /\ ds' = None
    /\ max_hs' = None
    /\ UNCHANGED <<buoy_lookup, err, station_name, lats, lons, df, fetched, line>>

\* ds = get_buoy_data(value) in get_station_locations, called by make_buoy_map
LocateFetch(menu) ==
    /\ pc = "make_buoy_map"
    /\ Fetch(menu)

\* ds.isel(gpsTime=-1)[...].values: the last fix
LastFix(fixes) == fixes[Len(fixes)]

\* the pass with a default position, the origin, for a station without data
LocateStationOrigin ==
    /\ pc = "make_buoy_map"
    /\ line = "body"
    /\ station_name' = Append(station_name, buoy_lookup[i + 1].key)
    /\ IF ds = None
       THEN /\ lats' = Append(lats, Some(0))
            /\ lons' = Append(lons, Some(0))
       ELSE /\ lats' = Append(lats, Some(LastFix(ds[1].gpsLatitude)))
            /\ lons' = Append(lons, Some(LastFix(ds[1].gpsLongitude)))
    /\ i' = i + 1
    /\ line' = "fetch"
    /\ UNCHANGED <<pc, buoy_lookup, ds, err, ax, df, files, fetched, max_hs>>

\* the rest of a pass of the loop of get_station_locations
LocateStation ==
    /\ pc = "make_buoy_map"
    /\ line = "body"
    /\ station_name' = Append(station_name, buoy_lookup[i + 1].key)
    /\ IF ds = None
       THEN /\ lats' = Append(lats, None)
            /\ lons' = Append(lons, None)
       ELSE /\ lats' = Append(lats, Some(LastFix(ds[1].gpsLatitude)))
            /\ lons' = Append(lons, Some(LastFix(ds[1].gpsLongitude)))
    /\ i' = i + 1
    /\ line' = "fetch"
    /\ UNCHANGED <<pc, buoy_lookup, ds, err, ax, df, files, fetched, max_hs>>

\* coords.query("station_names == @key"): the rows of that name
Query(key) == {k \in DOMAIN station_name : station_name[k] = key}

\* the rest of make_buoy_map: one scatter call per roster entry, in colour
\* cmap(i); the figure is saved, and __main__ calls make_density_plots
MapSave ==
    /\ pc = "make_buoy_map"
    /\ line = "fetch"
    /\ i = n
    /\ files' = [files EXCEPT !["map_region_feet.png"] =
                    Some([k \in DOMAIN buoy_lookup |->
                            [ colour    |-> k - 1,
                              longitude |-> {lons[r] : r \in Query(buoy_lookup[k].key)},
                              latitude  |-> {lats[r] : r \in Query(buoy_lookup[k].key)} ]])]
    /\ pc' = "make_density_plots"
    /\ i' = 0
    /\ station_name' = <<>>
    /\ lats' = <<>>
    /\ lons' = <<>>
    /\ ds' = None
    /\ UNCHANGED <<buoy_lookup, err, ax, df, fetched, line, max_hs>>

\* ds = get_buoy_data(value) in make_density_plots
DensityFetch(menu) ==
    /\ pc = "make_density_plots"
    /\ Fetch(menu)

\* the rest of a pass of the loop of make_density_plots
DensityColumn ==
    /\ pc = "make_density_plots"
    /\ line = "body"
    /\ IF ds = None
       THEN \* ds['waveHs'] on None
            Raise("TypeError") /\ UNCHANGED <<i, df, line>>
       ELSE /\ df' = IF i = 0
                     THEN Some(Frame(ds[1], buoy_lookup[i + 1].key))
                     ELSE Some(SetColumn(df[1], buoy_lookup[i + 1].key, ds[1]))
            /\ i' = i + 1
            /\ line' = "fetch"
            /\ UNCHANGED <<pc, err>>
    /\ UNCHANGED <<buoy_lookup, ds, ax, station_name, lats, lons, files, fetched, max_hs>>

\* the rest of make_density_plots: the last 30 days of the frame are
\* plotted and saved, and the script ends
DensitySave ==
    /\ pc = "make_density_plots"
    /\ line = "fetch"
    /\ i = n
    /\ files' = [files EXCEPT !["hs_distro_feet.png"] = Some(Recent(df[1]))]
    /\ pc' = "done"
    /\ UNCHANGED <<buoy_lookup, i, ds, err, ax, station_name, lats, lons, df, fetched,
                   line, max_hs>>

-----------------------------------------------------------------------------
(* The whole script, on rosters of 1 .. MaxStations stations *)

Init ==
    /\ pc = "make_timeseries_plots"
    /\ \E len \in 1..MaxStations : buoy_lookup = SubSeq(AllStations, 1, len)
    /\ i = 0
    /\ ds = None
    /\ err = "none"
    /\ ax = subplots(n)
    /\ station_name = <<>>
    /\ lats = <<>>
    /\ lons = <<>>
    /\ df = None
    /\ files = [f \in FileNames |-> None]
    /\ fetched = <<>>
    /\ line = "fetch"
    /\ max_hs = None

Next ==
    \/ TimeseriesFetch(RemoteDatasets)
    \/ TimeseriesPanel
    \/ TimeseriesSave
    \/ LocateFetch(RemoteDatasets)
    \/ LocateStation
    \/ MapSave
    \/ DensityFetch(RemoteDatasets)
    \/ DensityColumn
    \/ DensitySave

Spec == Init /\ [][Next]_vars

-----------------------------------------------------------------------------
(* The time-series step on every dataset of PlotDatasets: a roster of two   *)
(* whose first station was fetched as None, the second is about to be       *)
(* fetched.                                                                 *)

TwoStations == SubSeq(AllStations, 1, 2)

InitPlot ==
    /\ pc = "make_timeseries_plots"
    /\ buoy_lookup = TwoStations
    /\ i = 1
    /\ ds = None
    /\ err = "none"
    /\ ax = [ squeezed |-> FALSE,
              panels   |-> <<Some(OfflinePanel(TwoStations[1])), None>> ]
    /\ station_name = <<>>
    /\ lats = <<>>
    /\ lons = <<>>
    /\ df = None
    /\ files = [f \in FileNames |-> None]
    /\ fetched = << [caller |-> "make_timeseries_plots", key |-> TwoStations[1].key,
                     online |-> FALSE] >>
    /\ line = "fetch"
    /\ max_hs = None

NextPlot ==
    \/ TimeseriesFetch(PlotDatasets)
    \/ TimeseriesPanel
    \/ TimeseriesSave

SpecPlot == InitPlot /\ [][NextPlot]_vars

-----------------------------------------------------------------------------
(* The density step on a roster of two, after a time-series step and a map  *)
(* step that fetched None for both.  The two datasets are any two of        *)
(* AlignDatasets of which one at least is sparse: a sparse series aligned   *)
(* onto any axis, and any series aligned onto a sparse axis.                *)

InitAlign ==
    /\ pc = "make_density_plots"
    /\ buoy_lookup = TwoStations
    /\ i = 0
    /\ ds = None
    /\ err = "none"
    /\ ax = NoFigure
    /\ station_name = <<>>
    /\ lats = <<>>
    /\ lons = <<>>
    /\ df = None
    /\ files = [f \in FileNames |->
                  IF f = "hs_whole_region_feet.png"
                  THEN Some([k \in 1..2 |-> Shown(OfflinePanel(TwoStations[k]))])
                  ELSE IF f = "map_region_feet.png"
                  THEN Some([k \in 1..2 |->
                          [colour |-> k - 1, longitude |-> {None}, latitude |-> {None}]])
                  ELSE None]
    /\ fetched = [ k \in 1..4 |->
                     [ caller |-> IF k <= 2 THEN "make_timeseries_plots" ELSE "make_buoy_map",
                       key    |-> TwoStations[IF k <= 2 THEN k ELSE k - 2].key,
                       online |-> FALSE ] ]
    /\ line = "fetch"
    /\ max_hs = None

AlignMenu ==
    IF df = None \/ Range(df[1].index) \subseteq CoarseTimes
    THEN AlignDatasets ELSE SparseDatasets

NextAlign ==
    \/ DensityFetch(AlignMenu)
    \/ DensityColumn

SpecAlign == InitAlign /\ [][NextAlign]_vars

-----------------------------------------------------------------------------
(* Properties of the alignment, read off the state after the second station *)
(* of the density step: ds is that station's dataset, df the frame with the *)
(* first station's axis and the second station's aligned column.            *)

HasAligned == df # None /\ ds # None /\ Len(df[1].columns) = 2 /\ err = "none"
Axis == df[1].index
Aligned == df[1].data[df[1].columns[2]]
Raw == ds[1]
\* the aligned value that source sample k gives
SampleValue(k) == Some(FeetDensity(Raw.waveHs[k]))
\* distance of source sample k to axis position j
Distance(k, j) == Abs(Raw.waveTime[k] - Axis[j])
IsNearest(k, j) == \A m \in DOMAIN Raw.waveTime : Distance(k, j) <= Distance(m, j)
\* the source samples next to axis position j: the last at or before it,
\* the first at or after it
IsBefore(k, j) ==
    /\ Raw.waveTime[k] <= Axis[j]
    /\ \A m \in DOMAIN Raw.waveTime : Raw.waveTime[m] <= Axis[j] => m <= k
IsAfter(k, j) ==
    /\ Raw.waveTime[k] >= Axis[j]
    /\ \A m \in DOMAIN Raw.waveTime : Raw.waveTime[m] >= Axis[j] => k <= m
\* axis positions strictly between source sample k and axis position j
Between(k, j) ==
    {jj \in DOMAIN Axis :
        \/ Raw.waveTime[k] < Axis[jj] /\ Axis[jj] < Axis[j]
        \/ Axis[j] < Axis[jj] /\ Axis[jj] < Raw.waveTime[k]}
\* sample k may still be used at axis position j: an exact match, or fewer
\* than `limit` axis positions lie between the two
InReach(k, j) == Raw.waveTime[k] = Axis[j] \/ Cardinality(Between(k, j)) < limit
\* axis positions a..b all carry one and the same sample
IsRun(a, b) == \A j \in a..b : Aligned[j] # NaN /\ Aligned[j] = Aligned[a]

\* C5 as claimed: for some tolerance, every axis position carries the value
\* of a nearest source sample or the missing marker, and carries the
\* missing marker whenever the nearest source sample is farther away than
\* the tolerance.
C5_NearestWithinTolerance ==
    HasAligned =>
        \E tolerance \in 0..AlignSpan :
            \A j \in DOMAIN Axis :
                /\ Aligned[j] # NaN =>
                     \E k \in DOMAIN Raw.waveTime : Aligned[j] = SampleValue(k) /\ IsNearest(k, j)
                /\ (\A k \in DOMAIN Raw.waveTime : Distance(k, j) > tolerance) => Aligned[j] = NaN

\* C5 as amended: every axis position carries the missing marker or the
\* value of the source sample next before or next after it; an exact match
\* always carries its sample; the position is missing exactly when neither
\* neighbour is in reach (no distance enters); when it carries a sample
\* that is not a nearest one, the nearer neighbour was out of reach; a
\* missing position is never zero.
C5_NeighbourWithinLimit ==
    HasAligned =>
        \A j \in DOMAIN Axis :
            LET near == {k \in DOMAIN Raw.waveTime : IsBefore(k, j) \/ IsAfter(k, j)}
                reach == {k \in near : InReach(k, j)}
            IN /\ Aligned[j] = NaN <=> reach = {}
               /\ Aligned[j] # NaN => \E k \in reach : Aligned[j] = SampleValue(k)
               /\ \A k \in reach :
                     Aligned[j] = SampleValue(k) /\ ~IsNearest(k, j) =>
                        \A m \in near : IsNearest(m, j) => m \notin reach
               /\ \A k \in near : Raw.waveTime[k] = Axis[j] => Aligned[j] = SampleValue(k)
               /\ Aligned[j] # Some(0)

\* a position filled from a sample that is not the nearest, and farther
\* away than half the span
C5_Witness ==
    /\ HasAligned
    /\ \E j \in DOMAIN Axis : \E k \in DOMAIN Raw.waveTime :
          Aligned[j] = SampleValue(k) /\ ~IsNearest(k, j) /\ 2 * Distance(k, j) > AlignSpan

\* C6 as claimed: no run of axis positions carrying one source sample is
\* longer than the limit.
C6_RunAtMostLimit ==
    HasAligned =>
        \A a, b \in DOMAIN Axis : a <= b /\ IsRun(a, b) => b - a + 1 <= limit

\* C6 as amended: a source sample is carried by at most `limit` axis
\* positions after its own timestamp and at most `limit` before it, so no
\* run is longer than 2 * limit + 1.
C6_RunAtMostLimitEachSide ==
    HasAligned =>
        /\ \A k \in DOMAIN Raw.waveTime :
              /\ Cardinality({j \in DOMAIN Axis :
                    Aligned[j] = SampleValue(k) /\ Axis[j] > Raw.waveTime[k]}) <= limit
              /\ Cardinality({j \in DOMAIN Axis :
                    Aligned[j] = SampleValue(k) /\ Axis[j] < Raw.waveTime[k]}) <= limit
        /\ \A a, b \in DOMAIN Axis : a <= b /\ IsRun(a, b) => b - a + 1 <= 2 * limit + 1

\* one sample carried by 2 * limit + 1 axis positions in a row
C6_Witness ==
    /\ HasAligned
    /\ \E a, b \in DOMAIN Axis : a <= b /\ IsRun(a, b) /\ b - a + 1 = 2 * limit + 1

\* C7: every column of the frame, the aligned one included, is as long as
\* the reference axis, whatever the length of the series aligned.
C7_ColumnsHaveAxisLength ==
    df # None => \A c \in Range(df[1].columns) : Len(df[1].data[c]) = Len(df[1].index)

\* a series of no samples aligned onto an axis of several instants
C7_Witness ==
    /\ HasAligned
    /\ Len(Axis) > 1
    /\ Raw.waveTime = <<>>

-----------------------------------------------------------------------------
(* Properties of plot_buoy *)

\* sample k of dataset d lies in the window of the last `days` days
InWindow(d, k, days) == Now - days <= d.waveTime[k] /\ d.waveTime[k] <= Now

LastCall == fetched[Len(fetched)]

\* C8 as claimed: a dataset with no sample in the 10-day window raises no
\* error in the time-series step (its panel is drawn without a maximum).
C8_EmptyWindowIsNoError ==
    ( /\ fetched # <<>>
      /\ LastCall.caller = "make_timeseries_plots"
      /\ line = "body"
      /\ ds # None
      /\ \A k \in DOMAIN ds[1].waveTime : ~InWindow(ds[1], k, TrendDays) )
    => err = "none"

\* C10 as claimed: after a station's panel is drawn, the maximum returned
\* is the largest height of the 1-day window (the dataset plot_buoy returns,
\* which the loop keeps in ds).
C10_MaxOfShortWindow ==
    ( /\ pc = "make_timeseries_plots"
      /\ line = "fetch"
      /\ ds # None
      /\ ds[1].waveHs # <<>> )
    => max_hs = Some(FeetPlot(ArrayMax(ds[1].waveHs)))

\* C10 as amended: when a fetched dataset's panel is drawn, the maximum
\* returned is the largest height of the dataset's 10-day window, divided by
\* 0.3048: it is the height of a sample of that window, and no sample of
\* that window is higher.
C10_MaxOfTrendWindow ==
    [][ ( /\ pc = "make_timeseries_plots"
          /\ line = "body"
          /\ ds # None
          /\ err' = "none" )
        => /\ max_hs' # None
           /\ \E k \in DOMAIN ds[1].waveTime :
                 InWindow(ds[1], k, TrendDays) /\ max_hs'[1] = FeetPlot(ds[1].waveHs[k])
           /\ \A k \in DOMAIN ds[1].waveTime :
                 InWindow(ds[1], k, TrendDays) => FeetPlot(ds[1].waveHs[k]) <= max_hs'[1] ]_vars

\* a panel drawn whose maximum is higher than every sample of its 1-day
\* window, which has samples
C10_Witness ==
    /\ pc = "make_timeseries_plots"
    /\ line = "fetch"
    /\ ds # None
    /\ ds[1].waveHs # <<>>
    /\ max_hs # None
    /\ \A k \in DOMAIN ds[1].waveHs : FeetPlot(ds[1].waveHs[k]) < max_hs[1]

-----------------------------------------------------------------------------
(* Properties of the whole run *)

\* the calls of get_buoy_data made by function fn, in order
Calls(fn) == SelectSeq(fetched, LAMBDA c : c.caller = fn)

Ended == pc \in {"done", "aborted"}

Saved(f) == files[f] # None

\* the columns of the density matrix that was plotted, none if none was
MatrixColumns ==
    IF Saved("hs_distro_feet.png") THEN Range(files["hs_distro_feet.png"][1].columns) ELSE {}

\* C1 as claimed (on a roster of two or more stations): a station whose
\* fetch returned no dataset never ends the run.
C1_StationFailureNeverAborts ==
    n > 1 /\ pc = "aborted" => ds # None

\* C2 as claimed: when the run has ended, every station the map step
\* fetched as None has missing coordinates on the map, and the columns of
\* the density matrix are the stations the density step fetched a dataset
\* for: none that it fetched as None, and all of the others.
C2_OfflineExcludedOnlineKept ==
    Ended =>
        /\ \A k \in DOMAIN Calls("make_buoy_map") :
              ~Calls("make_buoy_map")[k].online =>
                 /\ Saved("map_region_feet.png")
                 /\ files["map_region_feet.png"][1][k].latitude = {None}
                 /\ files["map_region_feet.png"][1][k].longitude = {None}
        /\ \A c \in Range(Calls("make_density_plots")) :
              c.online <=> c.key \in MatrixColumns

\* C3 as claimed: a first station fetched as None does not end the density
\* step, the axis is left to the first station fetched with a dataset; and
\* the frame's axis is that station's own series, its column the first and
\* complete.
C3_AxisFromFirstOnline ==
    LET calls == Calls("make_density_plots")
        online == {k \in DOMAIN calls : calls[k].online}
    IN /\ pc = "aborted" /\ calls # <<>> => online # {}
       /\ df # None =>
             /\ online # {}
             /\ df[1].columns[1] = calls[CHOOSE k \in online : \A m \in online : k <= m].key
             /\ \A j \in DOMAIN df[1].index : df[1].data[df[1].columns[1]][j] # NaN

\* C4 as claimed (on a roster of two or more stations): when the run has
\* ended, the time-series figure has one panel per roster entry and the map
\* one marker per roster entry, in the roster's order, a panel's colormap
\* index and a marker's colormap index being the roster position.
C4_OutputsCoverRoster ==
    n > 1 /\ Ended =>
        /\ Saved("hs_whole_region_feet.png")
        /\ Len(files["hs_whole_region_feet.png"][1]) = n
        /\ \A k \in 1..n :
              LET panel == files["hs_whole_region_feet.png"][1][k]
              IN /\ panel.name = buoy_lookup[k].key
                 /\ panel.colour.cmap # None => panel.colour.cmap = Some(k - 1)
        /\ Saved("map_region_feet.png")
        /\ Len(files["map_region_feet.png"][1]) = n
        /\ \A k \in 1..n :
              /\ files["map_region_feet.png"][1][k].colour = k - 1
              /\ Cardinality(files["map_region_feet.png"][1][k].latitude) = 1

\* C9 as claimed: no station is fetched with a dataset by one call and as
\* None by another call of the same run.
C9_OneStatusPerStation ==
    \A a, b \in Range(fetched) : a.key = b.key => a.online = b.online

\* C9 as amended: each of the three steps fetches a station at most once,
\* and what the step shows of the station is what that one fetch returned:
\* the panel reads "Station Offline", the coordinates are missing, exactly
\* when it returned None, and a column of the frame is a station it
\* returned a dataset for.
C9_OneStatusPerFigure ==
    /\ \A a, b \in DOMAIN fetched :
          a # b => fetched[a].caller # fetched[b].caller \/ fetched[a].key # fetched[b].key
    /\ \A k \in DOMAIN ax.panels :
          ax.panels[k] # None =>
             (ax.panels[k][1].label = "Station Offline"
                <=> ~Calls("make_timeseries_plots")[k].online)
    /\ Saved("hs_whole_region_feet.png") =>
          \A k \in DOMAIN files["hs_whole_region_feet.png"][1] :
             (files["hs_whole_region_feet.png"][1][k].label = "Station Offline"
                <=> ~Calls("make_timeseries_plots")[k].online)
    /\ \A k \in DOMAIN lats :
          /\ lats[k] = None <=> ~Calls("make_buoy_map")[k].online
          /\ lons[k] = None <=> ~Calls("make_buoy_map")[k].online
    /\ Saved("map_region_feet.png") =>
          \A k \in DOMAIN files["map_region_feet.png"][1] :
             (files["map_region_feet.png"][1][k].latitude = {None}
                <=> ~Calls("make_buoy_map")[k].online)
    /\ df # None =>
          \A c \in Range(df[1].columns) :
             \E call \in Range(Calls("make_density_plots")) : call.key = c /\ call.online

\* a finished run in which a station is shown offline in the time-series
\* figure and has a column in the density matrix
C9_Witness ==
    /\ pc = "done"
    /\ \E k \in DOMAIN files["hs_whole_region_feet.png"][1] :
          /\ files["hs_whole_region_feet.png"][1][k].label = "Station Offline"
          /\ files["hs_whole_region_feet.png"][1][k].name \in MatrixColumns

\* the states InitPlot and InitAlign start from are states of the whole script
ReachesInitPlot == ~InitPlot
ReachesInitAlign == ~InitAlign

====
